---- MODULE Spec2Model ----
(***************************************************************************)
(* Offline-first synchronisation core of the calorie tracker:              *)
(*   - the IndexedDB-backed offline store (syncQueue, data, meta regions), *)
(*   - the offline-aware write path (offlinePost / offlineDelete),         *)
(*   - the background sync manager (processSyncQueue and its triggers).    *)
(*                                                                         *)
(* Every `await` of the source is a step boundary: an action is the code   *)
(* that runs from the completion of one awaited operation (a store         *)
(* request, a fetch) up to the next await.  A store request is atomic (one *)
(* IndexedDB transaction).                                                 *)
(***************************************************************************)
EXTENDS Naturals, Integers, Sequences, FiniteSets, TLC

\* ---- bounds of the model ----
MaxWrites == 2          \* mutations the user issues (ids 1..MaxWrites)
MaxCalls == 2           \* processSyncQueue invocations past the guard at once
MaxCounts == 1          \* pending getPendingSyncCount() continuations at once
MaxClock == 1           \* free clock ticks (Date.now() readings 0..MaxClock)
MaxOutages == 1         \* times the store starts failing its requests
MaxListeners == 2       \* listener functions (ids 1..MaxListeners)
MaxPatches == 2         \* optimistic patches applied in a row
MaxPubs == 2            \* publications followed by the listeners' history
MaxUseCount == 2        \* useCount of a favourite up to which requests are delivered

\* ---- program constants ----
MAX_RETRIES == 5

Ids == 1..MaxWrites
Calls == 1..MaxCalls
Listeners == 1..MaxListeners
None == -1

Responses == {"2xx", "4xx", "5xx", "neterr"}
Failing == {"5xx", "neterr"}

\* cache keys (URLs of cached GET responses)
WeightKey == "/api/data?type=weightEntries&userId=u1"
FoodKey == "/api/data?type=foodLogs&userId=u1"
ProfileKey == "/api/data?type=profile&userId=u1"
CacheKeys == {WeightKey, FoodKey, ProfileKey}
\* the other queries of the data-access layer
UsersKey == "/api/data?type=users"
UserKey == "/api/data?type=user&username=ann"
MeasureKey == "/api/data?type=bodyMeasurements&userId=u1"
SavedFoodsKey == "/api/data?type=savedFoods&userId=u1"
ProductsKey == "/api/data?type=products"
FavoritesKey == "/api/data?type=userFavorites&userId=u1"
FavWithProductsKey == "/api/data?type=userFavoritesWithProducts&userId=u1"
AllKeys == CacheKeys \cup {UsersKey, UserKey, MeasureKey, SavedFoodsKey, ProductsKey,
                           FavoritesKey, FavWithProductsKey}
LogId == "log1"

VARIABLES
  online,          \* navigator.onLine
  storeUp,         \* IndexedDB requests succeed (FALSE: they fail with an error)
  outages,         \* history: times the store has started failing
  now,             \* the clock read by new Date() / Date.now()
  queue,           \* syncQueue object store: id -> [timestamp, method, retries]
  lastSyncedAt,    \* meta['lastSyncedAt'] (None: never written)
  cache,           \* data object store: url -> [kind, data]
  isSyncing,       \* the re-entrancy guard
  currentStatus,   \* last published status
  currentPending,  \* last published pending count
  pass,            \* per processSyncQueue invocation past the guard: its locals
  counting,        \* pending "getPendingSyncCount() then notify('offline')" continuations
  wpc,             \* per mutation: where its offlinePost / offlineDelete call stands
  wts,             \* per mutation: the timestamp its call holds until the enqueue (else 0)
  attempts,        \* history: the retries the session found on the item plus the replay
                   \* requests it has issued for it since
  gone,            \* history: the item has been gone from the queue
  rejected,        \* history: the await at which a processSyncQueue promise rejected ("no": none)
  reconnectAt,     \* history: clock value at the last 'online' event
  offlineOnly,     \* history: offline without a break since before the first write
  rd,              \* the offlineGet call: where it stands, its key, what it returned and
                   \* from where (the network or the cache), how its cache put went
  fresh,           \* history: per key, the payload of the last successful read that was cached
                   \* and not patched since ("none": there is none)
  listeners,       \* the Set of status listeners, in insertion order
  received,        \* history: per listener, its invocations since it was last registered
  pubs,            \* history: the (status, pending) pairs published by notify
  srv,             \* the server's data store
  lastPatch,       \* history: the optimistic patches applied (n) and the last one's type
                   \* and record
  wlog             \* history: per mutation, the function that made it, whether its
                   \* optimistic patch failed, its timestamp, whether the server handled it,
                   \* the result findOrCreateProduct returned (the server's or a fabricated one),
                   \* the answer to its immediate push, the times the server handled it

vars == <<online, storeUp, outages, now, queue, lastSyncedAt, cache, isSyncing, currentStatus,
          currentPending, pass, counting, wpc, wts, attempts, gone,
          rejected, reconnectAt, offlineOnly, rd, fresh, listeners, received, pubs,
          srv, lastPatch, wlog>>

envVars == <<online, storeUp, outages, now>>
storeVars == <<queue, lastSyncedAt, cache>>
statusVars == <<currentStatus, currentPending>>
callVars == <<isSyncing, pass, counting>>
writeVars == <<wpc, wts>>
histVars == <<attempts, gone, rejected, reconnectAt, offlineOnly>>
readVars == <<rd, fresh>>
\* the store, the sync manager and the write path
vars_core == <<envVars, storeVars, statusVars, callVars, writeVars, histVars>>
listenerVars == <<listeners, received, pubs>>
\* what the write path and the drain pass do not touch
extVars == <<readVars, listenerVars, srv, lastPatch, wlog>>

\* ---- offline store: sync queue ----

\* the method of mutation m: odd ids are saveWeightEntry (POST), even ids deleteFoodLog (DELETE)
WriteMethod(m) == IF m % 2 = 1 THEN "POST" ELSE "DELETE"

NewSyncId_fixed(m) == 1
\* `sync-${Date.now()}-${random}`: a fresh key per enqueue
NewSyncId(m) == m

\* enqueueMutation: put { ...item, id, retries: 0 } under its id
enqueueMutation(q, m, t) ==
  LET id == NewSyncId(m) IN
  [k \in (DOMAIN q) \cup {id} |->
     IF k = id THEN [timestamp |-> t, method |-> WriteMethod(m), retries |-> 0] ELSE q[k]]

\* removeSyncItem: delete by key (deleting an absent key is not an error)
removeSyncItem(q, id) == [k \in (DOMAIN q) \ {id} |-> q[k]]

\* updateSyncItem: put(item), a full overwrite by id (an upsert)
updateSyncItem(q, it) ==
  [k \in (DOMAIN q) \cup {it.id} |->
     IF k = it.id THEN [timestamp |-> it.timestamp, method |-> it.method, retries |-> it.retries]
     ELSE q[k]]

\* getPendingSyncCount
getPendingSyncCount(q) == Cardinality(DOMAIN q)

RECURSIVE KeysAscending(_)
KeysAscending(S) ==
  IF S = {} THEN <<>>
  ELSE LET k == CHOOSE x \in S : \A y \in S : x <= y
       IN <<k>> \o KeysAscending(S \ {k})

\* store.getAll(): the records in ascending key order
getAllFromStore(q) ==
  LET ks == KeysAscending(DOMAIN q) IN
  [i \in 1..Len(ks) |->
     [id |-> ks[i], timestamp |-> q[ks[i]].timestamp, method |-> q[ks[i]].method,
      retries |-> q[ks[i]].retries]]

RECURSIVE InsertByTimestamp(_, _)
\* stable insertion: after every element whose timestamp is not greater
InsertByTimestamp(s, it) ==
  IF s = <<>> THEN <<it>>
  ELSE IF it.timestamp < Head(s).timestamp THEN <<it>> \o s
  ELSE <<Head(s)>> \o InsertByTimestamp(Tail(s), it)

RECURSIVE SortByTimestamp(_)
\* items.sort((a, b) => a.timestamp.localeCompare(b.timestamp)), a stable sort
SortByTimestamp(s) ==
  IF s = <<>> THEN <<>>
  ELSE InsertByTimestamp(SortByTimestamp(SubSeq(s, 1, Len(s) - 1)), s[Len(s)])

getPendingSyncItems_unsorted(q) == getAllFromStore(q)

\* getPendingSyncItems: all items ordered by timestamp
getPendingSyncItems(q) == SortByTimestamp(getAllFromStore(q))

\* ---- offline store: cached responses and optimistic patches ----

Absent == [kind |-> "absent", data |-> <<>>]
ListOf(s) == [kind |-> "list", data |-> s]
Object == [kind |-> "object", data |-> <<>>]
\* a cached payload that is one object, not an array
ObjectOf(rec) == [kind |-> "object", data |-> <<rec>>]
\* the JSON payload null
Null == [kind |-> "null", data |-> <<>>]

\* cacheApiResponse: put { data, cachedAt } under the URL
cacheApiResponse(c, url, data) == [c EXCEPT ![url] = data]

\* getCachedApiResponse: the entry under the URL (Absent: undefined)
getCachedApiResponse(c, url) == c[url]

CachedFound_data(cached) == cached /= Absent /\ cached /= Null
\* if (cached): the entry { data, cachedAt } is an object, truthy whatever its data
CachedFound(cached) == cached /= Absent

\* key.includes(pattern), for the cached keys and the patterns of the model: the
\* substring relation between them ("type=users" is no substring of "type=user&...",
\* "type=userFavorites" is one of "type=userFavoritesWithProducts...")
KeyIncludes(key, pattern) ==
  \/ key = WeightKey /\ pattern = "type=weightEntries"
  \/ key = FoodKey /\ pattern = "type=foodLogs"
  \/ key = ProfileKey /\ pattern = "type=profile"
  \/ key = UsersKey /\ pattern = "type=users"
  \/ key = MeasureKey /\ pattern = "type=bodyMeasurements"
  \/ key = ProductsKey /\ pattern = "type=products"
  \/ key = FavoritesKey /\ pattern = "type=userFavorites"
  \/ key = FavWithProductsKey /\ pattern = "type=userFavorites"

\* typeToCollectionMap[type].urlPattern ("" when the type has no mapping: the patch
\* returns at once)
UrlPatternNone(type) == ""
UrlPattern(type) ==
  CASE type = "user" -> "type=users"
    [] type = "profile" -> "type=profile"
    [] type = "weightEntry" -> "type=weightEntries"
    [] type = "foodLog" -> "type=foodLogs"
    [] type = "bodyMeasurement" -> "type=bodyMeasurements"
    [] type = "product" -> "type=products"
    [] type = "userFavorite" -> "type=userFavorites"
    [] OTHER -> ""

IdField_id(type) == "id"
\* typeToCollectionMap[type].idField
IdField(type) == IF type = "profile" THEN "userId" ELSE "id"

\* item[field] (undefined when the item has no such field)
Field(item, field) == IF field \in DOMAIN item THEN item[field] ELSE "undefined"

RECURSIVE FindIndex(_, _, _, _)
\* arr.findIndex(item => item[idField] === data[idField]), 0 when there is none; i is
\* the next index
FindIndex(arr, field, val, i) ==
  IF i > Len(arr) THEN 0
  ELSE IF Field(arr[i], field) = val THEN i
  ELSE FindIndex(arr, field, val, i + 1)

Merge_replace(old, new) == new
\* { ...old, ...new }
Merge(old, new) ==
  [f \in (DOMAIN old) \cup (DOMAIN new) |-> IF f \in DOMAIN new THEN new[f] ELSE old[f]]

\* merge into the existing element, or push
Upsert(arr, field, rec) ==
  LET idx == FindIndex(arr, field, Field(rec, field), 1) IN
  IF idx > 0 THEN [arr EXCEPT ![idx] = Merge(arr[idx], rec)] ELSE Append(arr, rec)

\* applyLocalMutation: upsert data into every cached list whose key includes the pattern
applyLocalMutation(c, type, rec) ==
  [k \in DOMAIN c |->
     IF KeyIncludes(k, UrlPattern(type)) /\ c[k].kind = "list"
     THEN ListOf(Upsert(c[k].data, IdField(type), rec))
     ELSE c[k]]

\* applyLocalDeletion: filter the id out of every cached list whose key includes the pattern
applyLocalDeletion(c, type, id) ==
  [k \in DOMAIN c |->
     IF KeyIncludes(k, UrlPattern(type)) /\ c[k].kind = "list"
     THEN ListOf(SelectSeq(c[k].data, LAMBDA it : it.id /= id))
     ELSE c[k]]

\* the fire-and-forget optimistic patch of a write: a failing store request is swallowed.
\* Its transaction is created before any transaction of a later call, so later reads see it.
OptimisticPatch(m) ==
  IF ~storeUp THEN cache
  ELSE IF WriteMethod(m) = "POST" THEN applyLocalMutation(cache, "weightEntry", [id |-> m])
  ELSE applyLocalDeletion(cache, "foodLog", LogId)

\* ---- sync manager ----

\* a processSyncQueue invocation that is not running
Free == [pc |-> "free", items |-> <<>>, idx |-> 0, remaining |-> 0, hadError |-> FALSE,
         resp |-> "none", op |-> "none", sent |-> <<>>, booked |-> 0, hits |-> 0,
         stamp |-> 0]

\* notify(status, pending)
notify(status, pending) ==
  /\ currentStatus' = status
  /\ currentPending' = pending

GuardSet_never == FALSE
\* if (isSyncing) return
GuardSet == isSyncing

\* the slot a new invocation runs in
FreeSlot == CHOOSE c \in Calls : pass[c].pc = "free" /\ \A d \in Calls : pass[d].pc = "free" => c <= d

\* history: a call that hits the guard while a replay is in flight marks that pass
MarkHit == [c \in Calls |-> IF pass[c].pc = "resp" THEN [pass[c] EXCEPT !.hits = 1] ELSE pass[c]]

processSyncQueue_noOfflineBranch(onl) ==
  IF GuardSet THEN
    /\ pass' = MarkHit
    /\ UNCHANGED <<isSyncing, counting>>
  ELSE
    /\ \E c \in Calls : pass[c].pc = "free"
    /\ isSyncing' = TRUE
    /\ pass' = [pass EXCEPT ![FreeSlot] = [Free EXCEPT !.pc = "load"]]
    /\ UNCHANGED counting

\* processSyncQueue(), from its call to its first await; onl is navigator.onLine at the call
processSyncQueue(onl) ==
  IF GuardSet THEN
    /\ pass' = MarkHit
    /\ UNCHANGED <<isSyncing, counting>>
  ELSE IF ~onl THEN
    /\ counting < MaxCounts
    /\ counting' = counting + 1
    /\ UNCHANGED <<isSyncing, pass>>
  ELSE
    /\ \E c \in Calls : pass[c].pc = "free"
    /\ isSyncing' = TRUE
    /\ pass' = [pass EXCEPT ![FreeSlot] = [Free EXCEPT !.pc = "load"]]
    /\ UNCHANGED counting

\* triggerSync(): if (navigator.onLine && !isSyncing) processSyncQueue()
triggerSync(onl) ==
  IF onl /\ ~isSyncing THEN processSyncQueue(onl)
  ELSE UNCHANGED callVars

replayMutation_retry4xx(r) == r = "2xx"
replayMutation_any(r) == r /= "neterr"
\* replayMutation's result: 2xx and 4xx are true, 5xx and a thrown fetch are false
replayMutation(r) == r \in {"2xx", "4xx"}

DropAtCeiling_late(retries) == retries > MAX_RETRIES
\* if (item.retries >= MAX_RETRIES)
DropAtCeiling(retries) == retries >= MAX_RETRIES

\* what fetch can answer: nothing but a network error without connectivity
Answers == IF online THEN Responses ELSE {"neterr"}

\* ---- initial state ----

EmptyQueue == [k \in {} |-> [timestamp |-> 0, method |-> "POST", retries |-> 0]]

InitCache ==
  [k \in CacheKeys |->
     IF k = WeightKey THEN ListOf(<<>>)
     ELSE IF k = FoodKey THEN ListOf(<<[id |-> LogId]>>)
     ELSE Object]

\* an offlineGet call has returned nothing yet / has thrown
NoOut == [kind |-> "none", data |-> <<>>]
Threw == [kind |-> "threw", data |-> <<>>]

\* no offlineGet call in flight
IdleRead == [pc |-> "idle", key |-> WeightKey, out |-> NoOut, via |-> "none", put |-> "none"]

\* an empty server store
EmptyStore ==
  [users |-> <<>>, profiles |-> <<>>, weightEntries |-> <<>>, foodLogs |-> <<>>,
   bodyMeasurements |-> <<>>, savedFoods |-> <<>>, products |-> <<>>, userFavorites |-> <<>>]

\* no optimistic patch applied yet
NoPatch == [n |-> 0, type |-> "none", rec |-> [id |-> "none"]]

\* no read in flight, no listener registered, nothing on the server
NoWrite ==
  [kind |-> "none", patchFailed |-> FALSE, ts |-> 0, delivered |-> FALSE, result |-> "none",
   push |-> "none", times |-> 0]

ExtInit ==
  /\ rd = IdleRead
  /\ fresh = [k \in CacheKeys |-> NoOut]
  /\ listeners = <<>>
  /\ received = [l \in Listeners |-> <<>>]
  /\ pubs = <<>>
  /\ srv = EmptyStore
  /\ lastPatch = NoPatch
  /\ wlog = [m \in Ids |-> NoWrite]

\* module state of the sync manager and an empty store; connectivity is the environment's
Init ==
  /\ online \in BOOLEAN
  /\ storeUp = TRUE
  /\ outages = 0
  /\ now = 0
  /\ queue = EmptyQueue
  /\ lastSyncedAt = None
  /\ cache = InitCache
  /\ isSyncing = FALSE
  /\ currentStatus = IF online THEN "idle" ELSE "offline"
  /\ currentPending = 0
  /\ pass = [c \in Calls |-> Free]
  /\ counting = 0
  /\ wpc = [m \in Ids |-> "new"]
  /\ wts = [m \in Ids |-> 0]
  /\ attempts = [m \in Ids |-> 0]
  /\ gone = [m \in Ids |-> FALSE]
  /\ rejected = "no"
  /\ reconnectAt = None
  /\ offlineOnly = TRUE
  /\ ExtInit

\* ---- environment ----

\* time passes
Tick ==
  /\ now < MaxClock
  /\ now' = now + 1
  /\ UNCHANGED <<online, storeUp, outages, storeVars, statusVars, callVars, writeVars, histVars>>

\* window 'online' event: notify('syncing', currentPending); processSyncQueue()
OnlineEvent ==
  /\ ~online
  /\ online' = TRUE
  /\ notify("syncing", currentPending)
  /\ processSyncQueue(TRUE)
  /\ offlineOnly' = (offlineOnly /\ \A m \in Ids : wpc[m] = "new")
  /\ UNCHANGED <<storeUp, outages, now, storeVars, writeVars, attempts, gone, rejected>>

GoOnline ==
  /\ OnlineEvent
  /\ UNCHANGED reconnectAt

\* window 'offline' event: the handler awaits getPendingSyncCount()
GoOffline ==
  /\ online
  /\ online' = FALSE
  /\ counting < MaxCounts
  /\ counting' = counting + 1
  /\ offlineOnly' = (offlineOnly /\ \A m \in Ids : wpc[m] = "new")
  /\ UNCHANGED <<storeUp, outages, now, storeVars, statusVars, isSyncing, pass, writeVars,
                 attempts, gone, rejected, reconnectAt>>

\* getPendingSyncCount() completes: notify('offline', count); a failing read publishes nothing
CountDone ==
  /\ counting > 0
  /\ counting' = counting - 1
  /\ IF storeUp THEN notify("offline", getPendingSyncCount(queue))
     ELSE UNCHANGED statusVars
  /\ UNCHANGED <<envVars, storeVars, isSyncing, pass, writeVars, histVars>>

TimerTick_never ==
  /\ FALSE
  /\ UNCHANGED vars_core

\* the setInterval callback: if (navigator.onLine && !isSyncing) processSyncQueue()
TimerTick ==
  /\ triggerSync(online)
  /\ UNCHANGED <<envVars, storeVars, statusVars, writeVars, histVars>>

\* processSyncQueue() called directly: the service worker's SW_SYNC_TRIGGER message,
\* the initial attempt of startAutoSync, a caller of the exported function
DirectCall ==
  /\ processSyncQueue(online)
  /\ UNCHANGED <<envVars, storeVars, statusVars, writeVars, histVars>>

\* ---- write path ----

WriteCall_patchAwaited(m) ==
  /\ wpc[m] = "new"
  /\ cache' = OptimisticPatch(m)
  /\ wts' = [wts EXCEPT ![m] = IF storeUp THEN now ELSE 0]
  /\ wpc' = [wpc EXCEPT ![m] = IF storeUp THEN "enq" ELSE "threw"]
  /\ offlineOnly' = (offlineOnly /\ ~online)
  /\ UNCHANGED <<envVars, queue, lastSyncedAt, statusVars, callVars,
                 attempts, gone, rejected, reconnectAt>>

\* offlinePost / offlineDelete up to `await enqueueMutation(...)`: the optimistic patch is
\* started (not awaited), the timestamp is taken and the put is requested
WriteCall(m) ==
  /\ wpc[m] = "new"
  /\ cache' = OptimisticPatch(m)
  /\ wts' = [wts EXCEPT ![m] = now]
  /\ wpc' = [wpc EXCEPT ![m] = "enq"]
  /\ offlineOnly' = (offlineOnly /\ ~online)
  /\ UNCHANGED <<envVars, queue, lastSyncedAt, statusVars, callVars,
                 attempts, gone, rejected, reconnectAt>>

\* saveWeightEntry(entry) -> offlinePost
saveWeightEntry(m) == WriteMethod(m) = "POST" /\ WriteCall(m)

\* saveFoodLog(log) -> offlinePost, for the log that deleteFoodLog deletes
saveFoodLog(m) ==
  /\ WriteMethod(m) = "POST"
  /\ wpc[m] = "new"
  /\ cache' = IF storeUp THEN applyLocalMutation(cache, "foodLog", [id |-> LogId]) ELSE cache
  /\ wts' = [wts EXCEPT ![m] = now]
  /\ wpc' = [wpc EXCEPT ![m] = "enq"]
  /\ offlineOnly' = (offlineOnly /\ ~online)
  /\ UNCHANGED <<envVars, queue, lastSyncedAt, statusVars, callVars,
                 attempts, gone, rejected, reconnectAt>>

\* deleteFoodLog(logId) -> offlineDelete
deleteFoodLog(m) == WriteMethod(m) = "DELETE" /\ WriteCall(m)

Enqueue_unawaited(m) ==
  /\ wpc[m] = "enq"
  /\ wpc' = [wpc EXCEPT ![m] = IF online THEN "push" ELSE "done"]
  /\ UNCHANGED <<envVars, storeVars, statusVars, callVars, wts, histVars>>

Enqueue_swallowed(m) ==
  /\ wpc[m] = "enq"
  /\ queue' = IF storeUp THEN enqueueMutation(queue, m, wts[m]) ELSE queue
  /\ wpc' = [wpc EXCEPT ![m] = IF online THEN "push" ELSE "done"]
  /\ wts' = [wts EXCEPT ![m] = 0]
  /\ UNCHANGED <<envVars, lastSyncedAt, cache, statusVars, callVars, histVars>>

\* the put of enqueueMutation completes (or fails: the write rejects); then, online, the
\* immediate push is issued, and offline triggerSync() runs and the write returns
Enqueue(m) ==
  /\ wpc[m] = "enq"
  /\ IF ~storeUp THEN
       /\ wpc' = [wpc EXCEPT ![m] = "threw"]
       /\ UNCHANGED <<queue, callVars>>
     ELSE
       /\ queue' = enqueueMutation(queue, m, wts[m])
       /\ IF online THEN
            /\ wpc' = [wpc EXCEPT ![m] = "push"]
            /\ UNCHANGED callVars
          ELSE
            /\ wpc' = [wpc EXCEPT ![m] = "done"]
            /\ triggerSync(online)
  /\ wts' = [wts EXCEPT ![m] = 0]
  /\ UNCHANGED <<envVars, lastSyncedAt, cache, statusVars, histVars>>

PushResponse_dequeues(m, r) ==
  /\ wpc[m] = "push"
  /\ r \in Answers
  /\ wpc' = [wpc EXCEPT ![m] = "done"]
  /\ triggerSync(online)
  /\ queue' = IF r = "2xx" THEN removeSyncItem(queue, NewSyncId(m)) ELSE queue
  /\ gone' = [gone EXCEPT ![m] = @ \/ (r = "2xx" /\ NewSyncId(m) \in DOMAIN queue)]
  /\ UNCHANGED <<envVars, lastSyncedAt, cache, statusVars, wts, attempts, rejected,
                 reconnectAt, offlineOnly>>

\* the immediate push is answered (or throws): triggerSync() on either path, then return
PushResponse(m, r) ==
  /\ wpc[m] = "push"
  /\ r \in Answers
  /\ wpc' = [wpc EXCEPT ![m] = "done"]
  /\ triggerSync(online)
  /\ UNCHANGED <<envVars, storeVars, statusVars, wts, histVars>>

\* findOrCreateProduct's offline fallback up to `await enqueueMutation(...)`: the product
\* and the favourite are patched into the cache (not awaited), the timestamp is taken
FocFallback(m) ==
  /\ cache' = IF storeUp
              THEN applyLocalMutation(applyLocalMutation(cache, "product", [id |-> m]),
                                      "userFavorite", [id |-> m])
              ELSE cache
  /\ wts' = [wts EXCEPT ![m] = now]
  /\ wpc' = [wpc EXCEPT ![m] = "focq"]

\* findOrCreateProduct(product, userId): online the request is tried first, offline the
\* fallback runs at once
findOrCreateProduct(m) ==
  /\ wpc[m] = "new"
  /\ WriteMethod(m) = "POST"
  /\ IF online THEN
       /\ wpc' = [wpc EXCEPT ![m] = "fetch"]
       /\ UNCHANGED <<cache, wts>>
     ELSE FocFallback(m)
  /\ offlineOnly' = (offlineOnly /\ ~online)
  /\ UNCHANGED <<envVars, queue, lastSyncedAt, statusVars, callVars,
                 attempts, gone, rejected, reconnectAt>>

FocResponse_alsoQueued(m, r) ==
  /\ wpc[m] = "fetch"
  /\ r \in Answers
  /\ IF r = "2xx" THEN
       /\ queue' = IF storeUp THEN enqueueMutation(queue, m, now) ELSE queue
       /\ wpc' = [wpc EXCEPT ![m] = "done"]
       /\ UNCHANGED <<cache, wts>>
     ELSE FocFallback(m) /\ UNCHANGED queue
  /\ UNCHANGED <<envVars, lastSyncedAt, statusVars, callVars, histVars>>

\* the request of findOrCreateProduct is answered: res.ok caches the server's records and
\* returns; any other answer, or a throw, falls through to the offline fallback
FocResponse(m, r) ==
  /\ wpc[m] = "fetch"
  /\ r \in Answers
  /\ IF r = "2xx" THEN
       /\ cache' = IF storeUp
                   THEN applyLocalMutation(applyLocalMutation(cache, "product", [id |-> m]),
                                           "userFavorite", [id |-> m])
                   ELSE cache
       /\ wpc' = [wpc EXCEPT ![m] = "done"]
       /\ UNCHANGED wts
     ELSE FocFallback(m)
  /\ UNCHANGED <<envVars, queue, lastSyncedAt, statusVars, callVars, histVars>>

\* the put of enqueueMutation in findOrCreateProduct completes (or fails: the call
\* rejects); then triggerSync() and the optimistic result is returned
FocEnqueue(m) ==
  /\ wpc[m] = "focq"
  /\ IF ~storeUp THEN
       /\ wpc' = [wpc EXCEPT ![m] = "threw"]
       /\ UNCHANGED <<queue, callVars>>
     ELSE
       /\ queue' = enqueueMutation(queue, m, wts[m])
       /\ wpc' = [wpc EXCEPT ![m] = "done"]
       /\ triggerSync(online)
  /\ wts' = [wts EXCEPT ![m] = 0]
  /\ UNCHANGED <<envVars, lastSyncedAt, cache, statusVars, histVars>>

\* ---- drain pass ----

\* replayMutation(item) is called for items[i]: its fetch is issued
Issue(p, i) ==
  [p EXCEPT !.idx = i, !.pc = "resp", !.resp = "none", !.op = "none",
            !.sent = Append(p.sent, p.items[i].id)]

Continue_stopOnError(p) ==
  IF p.idx < Len(p.items) /\ ~p.hadError
  THEN Issue([p EXCEPT !.booked = p.booked + 1], p.idx + 1)
  ELSE [p EXCEPT !.pc = "meta", !.booked = p.booked + 1, !.stamp = now]

\* the loop goes on to the next item, or after the last one reads the clock and calls
\* setMetaValue('lastSyncedAt', new Date().toISOString())
Continue(p) ==
  IF p.idx < Len(p.items) THEN Issue([p EXCEPT !.booked = p.booked + 1], p.idx + 1)
  ELSE [p EXCEPT !.pc = "meta", !.booked = p.booked + 1, !.stamp = now]

\* history: one more replay request for item id when the pass record p has just issued
\* one for it (the count stops one past the retry ceiling)
Counted(n, p, id) ==
  IF p.pc = "resp" /\ p.items[p.idx].id = id /\ n <= MAX_RETRIES THEN n + 1 ELSE n

\* the invocation's promise rejects: nothing after the failing await runs
Reject(c) ==
  /\ rejected' = pass[c].pc
  /\ pass' = [pass EXCEPT ![c] = Free]

\* getPendingSyncItems() completes: an empty queue ends the pass, otherwise
\* notify('syncing', n) and the first replay
LoadItems(c) ==
  /\ pass[c].pc = "load"
  /\ IF ~storeUp THEN
       /\ Reject(c)
       /\ UNCHANGED <<isSyncing, statusVars, attempts>>
     ELSE
       LET items == getPendingSyncItems(queue) IN
       IF Len(items) = 0 THEN
         /\ isSyncing' = FALSE
         /\ notify("idle", 0)
         /\ pass' = [pass EXCEPT ![c] = Free]
         /\ UNCHANGED <<attempts, rejected>>
       ELSE
         LET p == Issue([pass[c] EXCEPT !.items = items, !.remaining = Len(items),
                                        !.hadError = FALSE], 1) IN
         /\ notify("syncing", Len(items))
         /\ pass' = [pass EXCEPT ![c] = p]
         /\ attempts' = [m \in Ids |-> Counted(attempts[m], p, m)]
         /\ UNCHANGED <<isSyncing, rejected>>
  /\ UNCHANGED <<envVars, storeVars, counting, writeVars, gone,
                 reconnectAt, offlineOnly>>

\* the fetch of replayMutation is answered (or throws) after a round trip of d clock
\* ticks: success calls removeSyncItem, failure increments item.retries and calls
\* removeSyncItem or updateSyncItem
Response(c, r, d) ==
  /\ pass[c].pc = "resp"
  /\ r \in Answers
  /\ now' = now + d
  /\ LET p == pass[c]
         n == p.items[p.idx].retries + 1
     IN
     pass' = [pass EXCEPT ![c] =
       IF replayMutation(r) THEN [p EXCEPT !.pc = "book", !.resp = r, !.op = "remove", !.hits = 0]
       ELSE [p EXCEPT !.pc = "book", !.resp = r, !.items[p.idx].retries = n, !.hits = 0,
                      !.op = IF DropAtCeiling(n) THEN "drop" ELSE "update"]]
  /\ UNCHANGED <<online, storeUp, outages, storeVars, statusVars, isSyncing, counting, writeVars,
                 attempts, gone, rejected, reconnectAt, offlineOnly>>

\* the store request of the item's bookkeeping completes.  In the try block a failure
\* enters the catch block (retries + 1 once more, then remove or update); in the catch
\* block a failure rejects processSyncQueue, the guard still set.
Book(c) ==
  /\ pass[c].pc = "book"
  /\ LET p == pass[c]
         it == p.items[p.idx]
         n == it.retries + 1
     IN
     IF storeUp THEN
       IF p.op \in {"remove", "drop", "c_remove"} THEN
         LET q == [p EXCEPT !.remaining = p.remaining - 1] IN
         /\ queue' = removeSyncItem(queue, it.id)
         /\ gone' = [gone EXCEPT ![it.id] = @ \/ it.id \in DOMAIN queue]
         /\ IF p.op = "remove" THEN notify("syncing", q.remaining)
            ELSE UNCHANGED statusVars
         /\ pass' = [pass EXCEPT ![c] = Continue(q)]
         /\ attempts' = [m \in Ids |->
                           Counted(IF m = it.id THEN 0 ELSE attempts[m], Continue(q), m)]
         /\ UNCHANGED rejected
       ELSE
         LET q == [p EXCEPT !.hadError = TRUE] IN
         /\ queue' = updateSyncItem(queue, it)
         /\ pass' = [pass EXCEPT ![c] = Continue(q)]
         /\ attempts' = [m \in Ids |-> Counted(attempts[m], Continue(q), m)]
         /\ UNCHANGED <<gone, statusVars, rejected>>
     ELSE IF p.op \in {"remove", "drop", "update"} THEN
       /\ pass' = [pass EXCEPT ![c] =
                     [p EXCEPT !.items[p.idx].retries = n,
                               !.op = IF DropAtCeiling(n) THEN "c_remove" ELSE "c_update"]]
       /\ UNCHANGED <<queue, gone, statusVars, attempts, rejected>>
     ELSE
       /\ Reject(c)
       /\ UNCHANGED <<queue, gone, statusVars, attempts>>
  /\ UNCHANGED <<envVars, lastSyncedAt, cache, isSyncing, counting, writeVars,
                 reconnectAt, offlineOnly>>

Meta_idle(c) ==
  /\ pass[c].pc = "meta"
  /\ lastSyncedAt' = pass[c].stamp
  /\ isSyncing' = FALSE
  /\ notify("idle", pass[c].remaining)
  /\ pass' = [pass EXCEPT ![c] = Free]
  /\ UNCHANGED <<envVars, queue, cache, counting, writeVars, attempts, gone,
                 rejected, reconnectAt, offlineOnly>>

Meta_unlessError(c) ==
  /\ pass[c].pc = "meta"
  /\ lastSyncedAt' = IF pass[c].hadError THEN lastSyncedAt ELSE pass[c].stamp
  /\ isSyncing' = FALSE
  /\ notify(IF pass[c].hadError THEN "error" ELSE "idle", pass[c].remaining)
  /\ pass' = [pass EXCEPT ![c] = Free]
  /\ UNCHANGED <<envVars, queue, cache, counting, writeVars, attempts, gone,
                 rejected, reconnectAt, offlineOnly>>

\* the put of setMetaValue completes: clear the guard, publish the outcome
Meta(c) ==
  /\ pass[c].pc = "meta"
  /\ IF storeUp THEN
       /\ lastSyncedAt' = pass[c].stamp
       /\ isSyncing' = FALSE
       /\ notify(IF pass[c].hadError THEN "error" ELSE "idle", pass[c].remaining)
       /\ pass' = [pass EXCEPT ![c] = Free]
       /\ UNCHANGED rejected
     ELSE
       /\ Reject(c)
       /\ UNCHANGED <<lastSyncedAt, isSyncing, statusVars>>
  /\ UNCHANGED <<envVars, queue, cache, counting, writeVars, attempts, gone,
                 reconnectAt, offlineOnly>>

\* ---- read path ----

\* the payloads the server can answer a GET of the key with
NetPayloads(k) ==
  IF k = WeightKey THEN {Null, ListOf(<<>>), ListOf(<<[id |-> 1]>>)}
  ELSE IF k = FoodKey THEN {Null, ListOf(<<>>), ListOf(<<[id |-> LogId]>>)}
  ELSE {Null, Object}

\* offlineGet(url) is called: its fetch is issued
ReadCall(k) ==
  /\ rd.pc = "idle"
  /\ rd' = [pc |-> "net", key |-> k, out |-> NoOut, via |-> "none", put |-> "none"]
  /\ UNCHANGED <<vars_core, fresh, listenerVars, srv, lastPatch, wlog>>

ReadOk_cacheFirst(v) ==
  /\ rd.pc = "net"
  /\ online
  /\ v \in NetPayloads(rd.key)
  /\ cache' = IF storeUp THEN cacheApiResponse(cache, rd.key, v) ELSE cache
  /\ fresh' = [fresh EXCEPT ![rd.key] = IF storeUp THEN v ELSE NoOut]
  /\ rd' = [rd EXCEPT !.pc = "idle", !.via = "net",
                      !.out = IF CachedFound(getCachedApiResponse(cache, rd.key))
                              THEN getCachedApiResponse(cache, rd.key) ELSE v,
                      !.put = IF storeUp THEN "ok" ELSE "failed"]
  /\ UNCHANGED <<envVars, queue, lastSyncedAt, statusVars, callVars, writeVars, histVars,
                 listenerVars, srv, lastPatch, wlog>>

\* the fetch is answered res.ok with payload v: cacheApiResponse is started (not awaited,
\* a failing put is swallowed) and v is returned
ReadOk(v) ==
  /\ rd.pc = "net"
  /\ online
  /\ v \in NetPayloads(rd.key)
  /\ cache' = IF storeUp THEN cacheApiResponse(cache, rd.key, v) ELSE cache
  /\ fresh' = [fresh EXCEPT ![rd.key] = IF storeUp THEN v ELSE NoOut]
  /\ rd' = [rd EXCEPT !.pc = "idle", !.out = v, !.via = "net",
                      !.put = IF storeUp THEN "ok" ELSE "failed"]
  /\ UNCHANGED <<envVars, queue, lastSyncedAt, statusVars, callVars, writeVars, histVars,
                 listenerVars, srv, lastPatch, wlog>>

\* the fetch throws or is answered with an error status: await getCachedApiResponse(url)
ReadFail ==
  /\ rd.pc = "net"
  /\ rd' = [rd EXCEPT !.pc = "fallback"]
  /\ UNCHANGED <<vars_core, fresh, listenerVars, srv, lastPatch, wlog>>

\* getCachedApiResponse completes: the cached data is returned; without an entry, or
\* when the store request fails, offlineGet throws
ReadFallback ==
  /\ rd.pc = "fallback"
  /\ LET cached == getCachedApiResponse(cache, rd.key) IN
     rd' = [rd EXCEPT !.pc = "idle", !.via = "cache",
                      !.out = IF storeUp /\ CachedFound(cached) THEN cached ELSE Threw]
  /\ UNCHANGED <<vars_core, fresh, listenerVars, srv, lastPatch, wlog>>

\* the default value the caller of safeGet passes for the key: [] for the collections,
\* null for the profile
DefaultValue(k) == IF k = ProfileKey THEN Null ELSE ListOf(<<>>)

\* safeGet(url, defaultValue): what offlineGet returned, the default when it threw
safeGet(out, defaultValue) == IF out = Threw THEN defaultValue ELSE out

\* history: the optimistic patch of write m makes stale what was read under the keys it
\* patches
PatchedKeys(m) ==
  LET pattern == UrlPattern(IF WriteMethod(m) = "POST" THEN "weightEntry" ELSE "foodLog")
  IN [k \in CacheKeys |-> IF KeyIncludes(k, pattern) THEN NoOut ELSE fresh[k]]

\* ---- status listeners ----

\* the listener functions that throw when invoked
Throwing == {1}

\* the set of the elements of a sequence
Range(seq) == {seq[i] : i \in 1..Len(seq)}

\* listeners.add(listener): a Set keeps insertion order and holds a function once
SetAdd(ls, l) == IF l \in Range(ls) THEN ls ELSE Append(ls, l)

\* listeners.delete(listener)
SetDelete(ls, l) == SelectSeq(ls, LAMBDA x : x /= l)

\* history entries: invoked at registration, invoked by notify, unsubscribed
RegEntry(n, st, pe) == [t |-> "reg", n |-> n, s |-> st, p |-> pe]
PubEntry(n, st, pe) == [t |-> "pub", n |-> n, s |-> st, p |-> pe]
UnsubEntry == [t |-> "unsub", n |-> 0, s |-> "none", p |-> 0]

LoopStops_onThrow(l) == l \in Throwing
\* try { listener(status, pending) } catch { }: a throwing listener does not end the loop
LoopStops(l) == FALSE

RECURSIVE NotifyLoop(_, _, _, _)
\* for (const listener of listeners): the invocations of the listeners from the i-th on
NotifyLoop(ls, i, rcv, e) ==
  IF i > Len(ls) THEN rcv
  ELSE LET called == [rcv EXCEPT ![ls[i]] = Append(@, e)] IN
       IF LoopStops(ls[i]) THEN called ELSE NotifyLoop(ls, i + 1, called, e)

\* onSyncStatusChange(listener): add it, invoke it with the current state (a throw of
\* this invocation reaches the caller, the listener stays registered)
Subscribe(l) ==
  /\ listeners' = SetAdd(listeners, l)
  /\ received' = [received EXCEPT ![l] = <<RegEntry(Len(pubs), currentStatus, currentPending)>>]
  /\ UNCHANGED <<vars_core, readVars, pubs, srv, lastPatch, wlog>>

\* an unsubscribe function returned for listener l is called (again, or after l was
\* registered anew): listeners.delete(listener)
Unsubscribe(l) ==
  /\ received[l] /= <<>>
  /\ listeners' = SetDelete(listeners, l)
  /\ received' = [received EXCEPT ![l] =
                    IF @[Len(@)].t = "unsub" THEN @ ELSE Append(@, UnsubEntry)]
  /\ UNCHANGED <<vars_core, readVars, pubs, srv, lastPatch, wlog>>

\* notify(status, pending): set the current state, invoke every listener
Publish(st, pe) ==
  /\ Len(pubs) < MaxPubs
  /\ notify(st, pe)
  /\ pubs' = Append(pubs, <<st, pe>>)
  /\ received' = NotifyLoop(listeners, 1, received, PubEntry(Len(pubs) + 1, st, pe))
  /\ UNCHANGED <<envVars, storeVars, callVars, writeVars, histVars, readVars, listeners,
                 srv, lastPatch, wlog>>

\* ---- server: /api/data ----

\* the collection of the data store that holds the type
StoreField(type) ==
  CASE type = "user" -> "users"
    [] type = "profile" -> "profiles"
    [] type = "weightEntry" -> "weightEntries"
    [] type = "foodLog" -> "foodLogs"
    [] type = "bodyMeasurement" -> "bodyMeasurements"
    [] type = "savedFood" -> "savedFoods"
    [] type = "product" -> "products"
    [] type = "userFavorite" -> "userFavorites"

\* POST { type, data }: findIndex by id (profile: by userId), then merge or push
ServerUpsert(st, type, rec) ==
  [st EXCEPT ![StoreField(type)] = Upsert(@, IdField(type), rec)]

\* name.trim().toLowerCase(), for the names of the model
Normalize(name) ==
  CASE name = " Milk " -> "milk"
    [] name = "Milk" -> "milk"
    [] name = "Tea" -> "tea"
    [] OTHER -> name

\* arr.find(test), given the indexes that pass the test: the first one, 0 when none does
FirstIndex(S) == IF S = {} THEN 0 ELSE CHOOSE i \in S : \A j \in S : i <= j

\* store.products.find(p => p.barcode && p.barcode === barcode)
FindByBarcode(products, barcode) ==
  FirstIndex({i \in 1..Len(products) :
                products[i].barcode /= "" /\ products[i].barcode = barcode})

\* store.products.find(p => p.name.trim().toLowerCase() === normName)
FindByName(products, normName) ==
  FirstIndex({i \in 1..Len(products) : Normalize(products[i].name) = normName})

\* store.userFavorites.find(f => f.userId === userId && f.productId === product.id)
FindFavorite(favorites, userId, productId) ==
  FirstIndex({i \in 1..Len(favorites) :
                favorites[i].userId = userId /\ favorites[i].productId = productId})

\* crypto.randomUUID(): an id the store does not hold
Uuids == <<"uuid1", "uuid2", "uuid3", "uuid4", "uuid5", "uuid6", "uuid7", "uuid8">>
NewUuid(st) == Uuids[Len(st.products) + Len(st.userFavorites) + 1]

\* POST { type: 'findOrCreateProduct', data: { product, userId } } at server time t
ServerFindOrCreate(st, incoming, userId, t) ==
  LET byBarcode == IF incoming.barcode /= ""
                   THEN FindByBarcode(st.products, incoming.barcode)
                   ELSE 0
      byName == FindByName(st.products, Normalize(incoming.name))
      existing == IF byBarcode > 0 THEN byBarcode ELSE byName
      product == IF existing > 0 THEN st.products[existing]
                 ELSE [incoming EXCEPT !.id = IF @ = "" THEN NewUuid(st) ELSE @]
      products == IF existing > 0 THEN st.products ELSE Append(st.products, product)
      favorite == FindFavorite(st.userFavorites, userId, product.id)
      favorites ==
        IF favorite > 0
        THEN [st.userFavorites EXCEPT ![favorite].useCount = @ + 1, ![favorite].lastUsed = t]
        ELSE Append(st.userFavorites,
                    [id |-> NewUuid(st), userId |-> userId, productId |-> product.id,
                     useCount |-> 1, lastUsed |-> t])
  IN [st EXCEPT !.products = products, !.userFavorites = favorites]

\* DELETE ?type=..&id=..: filter the id out of the type's collection (a product takes
\* the favourites that reference it along); another type changes nothing
ServerDelete(st, type, id) ==
  CASE type = "foodLog" ->
         [st EXCEPT !.foodLogs = SelectSeq(@, LAMBDA l : l.id /= id)]
    [] type = "savedFood" ->
         [st EXCEPT !.savedFoods = SelectSeq(@, LAMBDA f : f.id /= id)]
    [] type = "product" ->
         [st EXCEPT !.products = SelectSeq(@, LAMBDA q : q.id /= id),
                    !.userFavorites = SelectSeq(@, LAMBDA f : f.productId /= id)]
    [] type = "userFavorite" ->
         [st EXCEPT !.userFavorites = SelectSeq(@, LAMBDA f : f.id /= id)]
    [] OTHER -> st

\* the store after request M = [method, type, data] was handled at server time t
Deliver(st, M, t) ==
  IF M.method = "DELETE" THEN ServerDelete(st, M.type, M.data.id)
  ELSE IF M.type = "findOrCreateProduct"
       THEN ServerFindOrCreate(st, M.data.product, M.data.userId, t)
  ELSE ServerUpsert(st, M.type, M.data)

\* ---- faults ----

\* the store starts failing its requests (quota, blocked or closed database)
StoreFail ==
  /\ storeUp
  /\ outages < MaxOutages
  /\ storeUp' = FALSE
  /\ outages' = outages + 1
  /\ UNCHANGED <<online, now, storeVars, statusVars, callVars, writeVars, histVars>>

\* the store answers its requests again
StoreRecover ==
  /\ ~storeUp
  /\ storeUp' = TRUE
  /\ UNCHANGED <<online, outages, now, storeVars, statusVars, callVars, writeVars, histVars>>

\* the tab is closed and opened again: every call in flight is gone, the module state is
\* initialised anew, the store is kept; startAutoSync() makes its initial attempt
Reload ==
  /\ wpc' = [m \in Ids |-> IF wpc[m] = "enq" THEN "killed"
                           ELSE IF wpc[m] = "push" THEN "done" ELSE wpc[m]]
  /\ currentStatus' = IF online THEN "idle" ELSE "offline"
  /\ currentPending' = 0
  /\ counting' = 0
  /\ isSyncing' = online
  /\ pass' = [c \in Calls |-> IF online /\ c = 1 THEN [Free EXCEPT !.pc = "load"] ELSE Free]
  /\ wts' = [m \in Ids |-> 0]
  /\ attempts' = [m \in Ids |-> IF m \in DOMAIN queue THEN queue[m].retries ELSE 0]
  /\ UNCHANGED <<envVars, storeVars, gone, rejected, reconnectAt, offlineOnly>>

\* ---- specifications ----

Next ==
  \/ GoOnline /\ UNCHANGED extVars
  \/ GoOffline /\ UNCHANGED extVars
  \/ CountDone /\ UNCHANGED extVars
  \/ TimerTick /\ UNCHANGED extVars
  \/ DirectCall /\ UNCHANGED extVars
  \/ \E m \in Ids : saveWeightEntry(m) /\ UNCHANGED extVars
  \/ \E m \in Ids : deleteFoodLog(m) /\ UNCHANGED extVars
  \/ \E m \in Ids : Enqueue(m) /\ UNCHANGED extVars
  \/ \E m \in Ids, r \in Responses : PushResponse(m, r) /\ UNCHANGED extVars
  \/ \E c \in Calls : LoadItems(c) /\ UNCHANGED extVars
  \/ \E c \in Calls, r \in Responses : Response(c, r, 0) /\ UNCHANGED extVars
  \/ \E c \in Calls : Book(c) /\ UNCHANGED extVars
  \/ \E c \in Calls : Meta(c) /\ UNCHANGED extVars

\* one session with a working store, all of it within one reading of the clock
Spec == Init /\ [][Next]_vars

NextTimed ==
  \/ Next
  \/ Tick /\ UNCHANGED extVars

\* one session with a working store, the clock advancing
SpecTimed == Init /\ [][NextTimed]_vars

NextFaults ==
  \/ Next
  \/ StoreFail /\ UNCHANGED extVars
  \/ StoreRecover /\ UNCHANGED extVars

\* one session in which the store may fail its requests for a while
SpecFaults == Init /\ [][NextFaults]_vars

NextCrash ==
  \/ Next
  \/ Reload /\ UNCHANGED extVars

\* sessions with a working store, the tab closed and opened again at any point
SpecCrash == Init /\ [][NextCrash]_vars

\* ---- a drain of a queue left by earlier sessions ----

MaxTs == 2              \* timestamps of the items found in the queue: 0..MaxTs

\* the queues an earlier session can leave: any items, any timestamps, never replayed or
\* one failure below the ceiling
LeftQueues ==
  UNION {[S -> [timestamp : 0..MaxTs, method : {"POST"}, retries : {0, MAX_RETRIES - 1}]]
         : S \in SUBSET Ids}

InitOrder ==
  /\ online = TRUE
  /\ storeUp = TRUE
  /\ outages = 0
  /\ now = 0
  /\ queue \in LeftQueues
  /\ lastSyncedAt = None
  /\ cache = InitCache
  /\ isSyncing = FALSE
  /\ currentStatus = "idle"
  /\ currentPending = 0
  /\ pass = [c \in Calls |-> Free]
  /\ counting = 0
  /\ wpc = [m \in Ids |-> IF m \in DOMAIN queue THEN "done" ELSE "new"]
  /\ wts = [m \in Ids |-> 0]
  /\ attempts = [m \in Ids |-> IF m \in DOMAIN queue THEN queue[m].retries ELSE 0]
  /\ gone = [m \in Ids |-> FALSE]
  /\ rejected = "no"
  /\ reconnectAt = None
  /\ offlineOnly = FALSE
  /\ ExtInit

NextOrder ==
  \/ GoOnline /\ UNCHANGED extVars
  \/ GoOffline /\ UNCHANGED extVars
  \/ CountDone /\ UNCHANGED extVars
  \/ TimerTick /\ UNCHANGED extVars
  \/ DirectCall /\ UNCHANGED extVars
  \/ \E c \in Calls : LoadItems(c) /\ UNCHANGED extVars
  \/ \E c \in Calls, r \in Responses : Response(c, r, 0) /\ UNCHANGED extVars
  \/ \E c \in Calls : Book(c) /\ UNCHANGED extVars
  \/ \E c \in Calls : Meta(c) /\ UNCHANGED extVars

SpecOrder == InitOrder /\ [][NextOrder]_vars

\* ---- the end-to-end scenario: offline, one saveWeightEntry, reconnect, drain ----

InitScenario ==
  /\ Init
  /\ online = FALSE

\* the only write of the scenario, issued offline
ScenarioWrite ==
  /\ ~online
  /\ \A k \in Ids : wpc[k] = "new"
  /\ \E m \in Ids : saveWeightEntry(m)

\* the environment goes online once the write has returned
Reconnect ==
  /\ \E m \in Ids : wpc[m] = "done"
  /\ OnlineEvent
  /\ reconnectAt' = now

\* the server answers every request 2xx, after a round trip of one clock tick
NextScenario ==
  \/ Tick /\ UNCHANGED extVars
  \/ ScenarioWrite /\ UNCHANGED extVars
  \/ \E m \in Ids : Enqueue(m) /\ UNCHANGED extVars
  \/ Reconnect /\ UNCHANGED extVars
  \/ CountDone /\ UNCHANGED extVars
  \/ TimerTick /\ UNCHANGED extVars
  \/ DirectCall /\ UNCHANGED extVars
  \/ \E c \in Calls : LoadItems(c) /\ UNCHANGED extVars
  \/ \E c \in Calls : Response(c, "2xx", 1) /\ UNCHANGED extVars
  \/ \E c \in Calls : Book(c) /\ UNCHANGED extVars
  \/ \E c \in Calls : Meta(c) /\ UNCHANGED extVars

SpecScenario == InitScenario /\ [][NextScenario]_vars

\* ---- claims ----

\* the invocations past the guard
ActivePasses == {c \in Calls : pass[c].pc /= "free"}

\* the item a pass is replaying or booking
Current(c) == pass[c].items[pass[c].idx]

\* the pass has an item in hand: its replay is in flight or its bookkeeping is pending
MidItem(c) == pass[c].pc \in {"resp", "book"}

\* the replay requests in flight for item id
InFlight(id) == {c \in Calls : pass[c].pc = "resp" /\ Current(c).id = id}

\* no id occurs twice in the sequence
NoRepeat(seq) == \A i, j \in 1..Len(seq) : seq[i] = seq[j] => i = j

\* C1: at most one drain pass is active at a time, whatever triggers interleave: a pass
\* runs only under the guard, a call that finds the guard set starts nothing, and so
\* every queued item has at most one replay request in flight and is requested at most
\* once by the pass.
C1_SinglePass ==
  /\ Cardinality(ActivePasses) <= 1
  /\ ActivePasses /= {} => isSyncing
  /\ \A m \in Ids : Cardinality(InFlight(m)) <= 1
  /\ \A c \in Calls : NoRepeat(pass[c].sent)

\* a call hit the guard while the running pass had a replay in flight
C1_Witness == \E c \in Calls : pass[c].pc = "resp" /\ pass[c].hits = 1

\* C2: once a write has issued its immediate push, or has returned, its mutation is in
\* the persisted queue or has been removed by a drain pass; a failed push or a closed
\* tab does not lose it.
C2_QueuedBeforePush ==
  \A m \in Ids : wpc[m] \in {"push", "done"} => (NewSyncId(m) \in DOMAIN queue \/ gone[m])

\* the immediate push of a queued mutation is in flight
C2_Witness == \E m \in Ids : wpc[m] = "push" /\ NewSyncId(m) \in DOMAIN queue /\ ~gone[m]

\* C3: while the environment has been offline since before the first write, the queue
\* holds as many items as writes have returned.
C3_OfflineWritesQueued ==
  (~online /\ offlineOnly) =>
     Cardinality(DOMAIN queue) = Cardinality({m \in Ids : wpc[m] = "done"})

\* every write of the model was issued offline and has returned
C3_Witness == ~online /\ offlineOnly /\ \A m \in Ids : wpc[m] = "done"

\* the timestamps of the sequence of items are pairwise distinct
DistinctTimestamps(items) ==
  \A i, j \in 1..Len(items) : items[i].timestamp = items[j].timestamp => i = j

\* C4: a pass over items with pairwise distinct timestamps requests them in strictly
\* ascending timestamp order, whatever their order in the store, and one at a time: a
\* request is issued only when the bookkeeping of every earlier item has finished.
C4_ReplayOrder ==
  \A c \in Calls :
    pass[c].pc \in {"resp", "book", "meta"} =>
      LET p == pass[c] IN
      /\ DistinctTimestamps(p.items) =>
           \A i, j \in 1..Len(p.items) : i < j => p.items[i].timestamp < p.items[j].timestamp
      /\ p.sent = [i \in 1..p.idx |-> p.items[i].id]
      /\ p.booked = IF p.pc = "meta" THEN Len(p.sent) ELSE Len(p.sent) - 1

\* a pass has replayed two items in timestamp order against their order in the store
C4_Witness ==
  \E c \in Calls :
    /\ pass[c].pc = "meta"
    /\ Len(pass[c].items) >= 2
    /\ DistinctTimestamps(pass[c].items)
    /\ pass[c].sent[1] > pass[c].sent[2]

\* C5: an item whose replays fail is requested by at most MAX_RETRIES passes: between
\* passes its stored retries equal the attempts made, the attempt that drops it is the
\* MAX_RETRIES-th, and no request is issued for it after it has been removed.
C5_BoundedRetries ==
  \A m \in Ids :
    /\ attempts[m] <= MAX_RETRIES
    /\ gone[m] => attempts[m] = 0
    /\ m \in DOMAIN queue =>
         /\ queue[m].retries < MAX_RETRIES
         /\ attempts[m] = queue[m].retries
                          + (IF \E c \in Calls : MidItem(c) /\ Current(c).id = m THEN 1 ELSE 0)
    /\ \A c \in Calls :
         (pass[c].pc = "book" /\ Current(c).id = m /\ pass[c].op = "drop")
            => attempts[m] = MAX_RETRIES

\* an item answered 5xx for the MAX_RETRIES-th time has been dropped
C5_Witness ==
  \E c \in Calls :
    /\ pass[c].pc \in {"resp", "meta"}
    /\ pass[c].op = "drop"
    /\ pass[c].resp = "5xx"
    /\ gone[Current(c).id]

\* C6: an item whose replay is answered 4xx is removed by the bookkeeping that follows,
\* whatever its retries, its retries not incremented and the pass not marked as failed.
C6_ClientErrorDropped ==
  [][\A c \in Calls :
       (pass[c].pc = "book" /\ pass[c].resp = "4xx") =>
          /\ pass[c].op = "remove"
          /\ Current(c).id \in DOMAIN queue
          /\ Current(c).retries = queue[Current(c).id].retries
          /\ pass'[c] /= pass[c] =>
               /\ Current(c).id \notin DOMAIN queue'
               /\ pass'[c].hadError = pass[c].hadError
               /\ pass'[c].remaining = pass[c].remaining - 1]_vars

\* an item that had failed before was answered 4xx and is gone
C6_Witness ==
  \E c \in Calls :
    /\ pass[c].pc = "meta"
    /\ pass[c].resp = "4xx"
    /\ Current(c).retries > 0
    /\ ~pass[c].hadError
    /\ Current(c).id \notin DOMAIN queue

\* C7: the stored retries of an item never decrease; an item leaves the queue only in
\* the bookkeeping of a pass whose replay of it was answered 2xx or 4xx, or failed with
\* its retries reaching MAX_RETRIES; an item that has left never comes back.
C7_ItemLifecycle ==
  [][\A m \in Ids :
       /\ (m \in DOMAIN queue /\ m \in DOMAIN queue') => queue'[m].retries >= queue[m].retries
       /\ (m \in DOMAIN queue /\ m \notin DOMAIN queue') =>
            \E c \in Calls :
              /\ pass[c].pc = "book"
              /\ Current(c).id = m
              /\ \/ pass[c].resp \in {"2xx", "4xx"}
                 \/ pass[c].resp \in Failing /\ Current(c).retries >= MAX_RETRIES
       /\ (m \notin DOMAIN queue /\ m \in DOMAIN queue') => ~gone[m]]_vars

\* one item has been retried and another has been removed
C7_Witness ==
  \E m, k \in Ids : gone[m] /\ k \in DOMAIN queue /\ queue[k].retries > 0

\* C8: no exception of an item's replay or bookkeeping escapes processSyncQueue: its
\* promise never rejects at the bookkeeping of an item.
C8_NeverRejects == rejected /= "book"

\* the status sequence offline, syncing, idle: a published status repeats or moves on
StatusOrder ==
  \/ currentStatus' = currentStatus
  \/ currentStatus = "offline" /\ currentStatus' = "syncing"
  \/ currentStatus = "syncing" /\ currentStatus' = "idle"

\* C9: in the scenario the subscriber sees offline, then syncing, then idle, and the
\* pending counts published under syncing never go up and have reached 0 when idle is
\* published.
C9_StatusSequence ==
  [][/\ StatusOrder
     /\ (currentStatus = "syncing" /\ currentStatus' = "syncing")
           => currentPending' <= currentPending
     /\ (currentStatus = "syncing" /\ currentStatus' = "idle")
           => (currentPending = 0 /\ currentPending' = 0)]_vars

\* the weight entry of write m is in the cached weight list
CachedWeight(m) ==
  \E i \in 1..Len(cache[WeightKey].data) : cache[WeightKey].data[i].id = m

InitRead ==
  /\ Init
  /\ online = TRUE

\* reads one after another; of a write only its first step, the patch: the rest of the
\* write and the drain pass do not touch the cache
NextRead ==
  \/ \E k \in CacheKeys : ReadCall(k)
  \/ \E v \in NetPayloads(rd.key) : ReadOk(v)
  \/ ReadFail
  \/ ReadFallback
  \/ \E m \in Ids : saveWeightEntry(m) /\ fresh' = PatchedKeys(m)
                                       /\ UNCHANGED <<rd, listenerVars, srv, lastPatch, wlog>>
  \/ \E m \in Ids : deleteFoodLog(m) /\ fresh' = PatchedKeys(m)
                                     /\ UNCHANGED <<rd, listenerVars, srv, lastPatch, wlog>>

SpecRead == InitRead /\ [][NextRead]_vars

\* C11: a read whose network request fails returns exactly the payload of the last
\* successful read of its key (null and the empty list included), when no optimistic
\* patch of the key came in between.
C11_CachedFallback ==
  (rd.pc = "idle" /\ rd.via = "cache" /\ fresh[rd.key] /= NoOut) => rd.out = fresh[rd.key]

\* a failing read has returned the cached null
C11_Witness ==
  /\ rd.pc = "idle"
  /\ rd.via = "cache"
  /\ rd.out = Null
  /\ fresh[rd.key] = Null
\* ---- the optimistic patch of offlinePost, for every save function ----

\* the types the data-access layer writes through offlinePost: saveUser, saveProfile,
\* saveWeightEntry, saveFoodLog, saveBodyMeasurement, saveSavedFood, saveProduct,
\* saveUserFavorite
PostTypes == {"user", "profile", "weightEntry", "foodLog", "bodyMeasurement", "savedFood",
              "product", "userFavorite"}

\* the query of the type's collection
CollectionKey(type) ==
  CASE type = "user" -> UsersKey
    [] type = "profile" -> ProfileKey
    [] type = "weightEntry" -> WeightKey
    [] type = "foodLog" -> FoodKey
    [] type = "bodyMeasurement" -> MeasureKey
    [] type = "savedFood" -> SavedFoodsKey
    [] type = "product" -> ProductsKey
    [] type = "userFavorite" -> FavoritesKey

\* record r of the type, with value v
RecOf(type, r, v) == IF type = "profile" THEN [userId |-> r, v |-> v] ELSE [id |-> r, v |-> v]

\* what a cached list can hold before the patch: nothing, another record, the record itself
CachedLists ==
  LET other == [id |-> "r2", userId |-> "r2", v |-> "old"]
      same == [id |-> "r1", userId |-> "r1", v |-> "old", note |-> "kept"]
  IN {<<>>, <<other>>, <<same>>, <<other, same>>}

PatchCaches ==
  {[k \in AllKeys |->
      IF k = absent THEN Absent
      ELSE IF k \in {ProfileKey, UserKey}
           THEN ObjectOf([id |-> "r1", userId |-> "r1", v |-> "old", note |-> "kept"])
      ELSE IF k = FavWithProductsKey THEN ListOf(<<[favoriteId |-> "r1", v |-> "old"]>>)
      ELSE ListOf(lst)]
   : lst \in CachedLists, absent \in AllKeys \cup {"none"}}

InitPatch ==
  /\ online = FALSE
  /\ storeUp = TRUE
  /\ outages = 0
  /\ now = 0
  /\ queue = EmptyQueue
  /\ lastSyncedAt = None
  /\ cache \in PatchCaches
  /\ isSyncing = FALSE
  /\ currentStatus = "offline"
  /\ currentPending = 0
  /\ pass = [c \in Calls |-> Free]
  /\ counting = 0
  /\ wpc = [m \in Ids |-> "new"]
  /\ wts = [m \in Ids |-> 0]
  /\ attempts = [m \in Ids |-> 0]
  /\ gone = [m \in Ids |-> FALSE]
  /\ rejected = "no"
  /\ reconnectAt = None
  /\ offlineOnly = TRUE
  /\ ExtInit

\* offlinePost(body, { type, data }) issued offline, its first step: the optimistic patch
PostPatch(type, rec) ==
  /\ ~online
  /\ lastPatch.n < MaxPatches
  /\ cache' = IF storeUp THEN applyLocalMutation(cache, type, rec) ELSE cache
  /\ lastPatch' = [n |-> lastPatch.n + 1, type |-> type, rec |-> rec]
  /\ UNCHANGED <<envVars, queue, lastSyncedAt, statusVars, callVars, writeVars, histVars,
                 readVars, listenerVars, srv, wlog>>

NextPatch ==
  \E type \in PostTypes, r \in {"r1", "r2"} : PostPatch(type, RecOf(type, r, "new"))

SpecPatch == InitPatch /\ [][NextPatch]_vars

\* element e holds every field of record rec, with rec's value
Covers(e, rec) == \A f \in DOMAIN rec : f \in DOMAIN e /\ e[f] = rec[f]

\* the cached payload includes the record
Includes(payload, rec) == \E i \in 1..Len(payload.data) : Covers(payload.data[i], rec)

\* C12: after an offline offlinePost with an optimistic patch for record R of type T, the
\* cached payload of T's collection query, when there is one, includes R, for each of
\* the eight types written through offlinePost.
C12_PatchVisible ==
  lastPatch.n > 0 =>
     LET k == CollectionKey(lastPatch.type) IN
     cache[k] /= Absent => Includes(cache[k], lastPatch.rec)
\* C13: whenever no drain pass is in progress the published pending count equals the
\* number of queued items, and the published status is idle only while the queue is
\* empty.
C13_StatusAgrees ==
  (~isSyncing /\ ActivePasses = {} /\ counting = 0) =>
     /\ currentPending = getPendingSyncCount(queue)
     /\ currentStatus = "idle" => getPendingSyncCount(queue) = 0
\* ---- the listeners of the sync status ----

Statuses == {"idle", "syncing", "offline", "error"}

\* listeners come and go while the sync manager publishes
NextListeners ==
  \/ \E l \in Listeners : Subscribe(l)
  \/ \E l \in Listeners : Unsubscribe(l)
  \/ \E st \in Statuses, pe \in 0..1 : Publish(st, pe)

SpecListeners == Init /\ [][NextListeners]_vars

\* the state current after n publications
PublishedAt(n) ==
  IF n = 0 THEN <<IF online THEN "idle" ELSE "offline", 0>> ELSE pubs[n]

\* C14: a registered listener has been invoked once at its registration, with the state
\* current then, and once for every publication since, in publication order, whether
\* or not a listener before it throws; a listener whose unsubscribe function was called
\* has not been invoked since.
C14_ListenerContract ==
  \A l \in Listeners :
    LET log == received[l] IN
    IF l \in Range(listeners) THEN
      /\ log /= <<>>
      /\ log[1] = RegEntry(log[1].n, PublishedAt(log[1].n)[1], PublishedAt(log[1].n)[2])
      /\ Len(log) = 1 + Len(pubs) - log[1].n
      /\ \A i \in 2..Len(log) :
           log[i] = PubEntry(log[1].n + i - 1, pubs[log[1].n + i - 1][1],
                             pubs[log[1].n + i - 1][2])
    ELSE log = <<>> \/ log[Len(log)].t = "unsub"

\* a listener has received two publications, the first of them together with a throwing
\* listener that was unsubscribed before the second
C14_Witness ==
  /\ Len(pubs) = 2
  /\ \E l \in Listeners \ Throwing, k \in Throwing :
       /\ listeners = <<l>>
       /\ Len(received[l]) = 3
       /\ Len(received[k]) = 3
       /\ received[k][2].t = "pub"
       /\ received[k][3].t = "unsub"

\* ---- writes and reads while the store may fail ----

\* history: the function that made mutation m, whether the store was failing when its
\* optimistic patch was requested, and the timestamp the mutation carries
Logged(m, kind) ==
  [wlog EXCEPT ![m] = [kind |-> kind, patchFailed |-> ~storeUp, ts |-> now,
                       delivered |-> FALSE, result |-> "none", push |-> "none", times |-> 0]]

SideFrame == UNCHANGED <<readVars, listenerVars, srv, lastPatch>>

NextWrites ==
  \/ StoreFail /\ UNCHANGED extVars
  \/ StoreRecover /\ UNCHANGED extVars
  \/ \E m \in Ids : saveWeightEntry(m) /\ SideFrame /\ wlog' = Logged(m, "offlinePost")
  \/ \E m \in Ids : deleteFoodLog(m) /\ SideFrame /\ wlog' = Logged(m, "offlineDelete")
  \/ \E m \in Ids : Enqueue(m) /\ UNCHANGED extVars
  \/ \E m \in Ids, r \in Responses : PushResponse(m, r) /\ UNCHANGED extVars
  \/ \E c \in Calls : LoadItems(c) /\ UNCHANGED extVars
  \/ \E c \in Calls, r \in Responses : Response(c, r, 0) /\ UNCHANGED extVars
  \/ \E c \in Calls : Book(c) /\ UNCHANGED extVars
  \/ \E c \in Calls : Meta(c) /\ UNCHANGED extVars
  \/ \E m \in Ids : findOrCreateProduct(m) /\ SideFrame
                     /\ wlog' = IF online THEN [wlog EXCEPT ![m].kind = "findOrCreateProduct"]
                                 ELSE Logged(m, "findOrCreateProduct")
  \/ \E m \in Ids, r \in Responses : FocResponse(m, r) /\ SideFrame
                     /\ wlog' = IF r = "2xx" THEN [wlog EXCEPT ![m].result = "server"]
                                 ELSE Logged(m, "findOrCreateProduct")
  \/ \E m \in Ids : FocEnqueue(m) /\ SideFrame
                     /\ wlog' = IF storeUp THEN [wlog EXCEPT ![m].result = "fabricated"]
                                 ELSE wlog
  \/ ReadCall(WeightKey)
  \/ \E v \in NetPayloads(rd.key) : ReadOk(v)
  \/ ReadFail
  \/ ReadFallback

SpecWrites == Init /\ [][NextWrites]_vars

\* mutation m's call is at its `await enqueueMutation(...)`
AtEnqueue(m) == wpc[m] \in {"enq", "focq"}

\* C15: when the put of enqueueMutation fails, offlinePost, offlineDelete and the offline
\* branch of findOrCreateProduct reject, and nothing is queued.
C15_EnqueueFailurePropagates ==
  [][\A m \in Ids :
       (AtEnqueue(m) /\ ~storeUp /\ wpc'[m] /= wpc[m]) =>
          (wpc'[m] = "threw" /\ NewSyncId(m) \notin DOMAIN queue')]_vars

\* a findOrCreateProduct call and an offlineDelete call have both rejected
C15_Witness ==
  \E m, k \in Ids :
    /\ wpc[m] = "threw" /\ wlog[m].kind = "findOrCreateProduct"
    /\ wpc[k] = "threw" /\ wlog[k].kind = "offlineDelete"

\* C16: while online, a write whose enqueue fails is still sent over the network.
C16_OnlineWriteStillSent ==
  [][\A m \in Ids :
       (wpc[m] = "enq" /\ online /\ ~storeUp /\ wpc'[m] /= wpc[m]) => wpc'[m] = "push"]_vars

\* C17: a failing cache request never blocks the call: with the queue store answering,
\* a write whose optimistic patch failed is enqueued and goes on to its push (online) or
\* returns with the item queued (offline); a call rejects only at a failing enqueue; a
\* read answered by the network returns the payload whether or not its cache put failed.
C17_CacheFailureNeverBlocks ==
  [][/\ \A m \in Ids :
         /\ (AtEnqueue(m) /\ storeUp /\ wpc'[m] /= wpc[m]) =>
               /\ NewSyncId(m) \in DOMAIN queue'
               /\ wpc'[m] = IF online /\ wpc[m] = "enq" THEN "push" ELSE "done"
         /\ (wpc'[m] = "threw" /\ wpc[m] /= "threw") => (AtEnqueue(m) /\ ~storeUp)
     /\ (rd.pc = "net" /\ rd'.pc = "idle") =>
           (rd'.via = "net" /\ rd'.out \in NetPayloads(rd.key))]_vars

\* a write whose patch failed is queued and at its push, and the last read returned the
\* network's payload although its cache put failed
C17_Witness ==
  /\ \E m \in Ids : wlog[m].patchFailed /\ wpc[m] = "push" /\ NewSyncId(m) \in DOMAIN queue
  /\ rd.pc = "idle" /\ rd.put = "failed" /\ rd.out \in NetPayloads(rd.key)
\* ---- the server API, requests arriving one at a time ----

\* the types whose records carry nothing the server looks at but their id
PlainTypes == {"user", "profile", "weightEntry", "foodLog", "bodyMeasurement", "savedFood"}

ProductOf(id, name, barcode) == [id |-> id, name |-> name, barcode |-> barcode]

\* the requests the client enqueues: upserts of every type, findOrCreateProduct, deletes
Mutations ==
  {[method |-> "POST", type |-> type, data |-> RecOf(type, "r1", "a")] : type \in PlainTypes}
  \cup {[method |-> "POST", type |-> "foodLog", data |-> RecOf("foodLog", "r1", "b")]}
  \cup {[method |-> "POST", type |-> "product", data |-> ProductOf("p1", "Milk", "")],
        [method |-> "POST", type |-> "userFavorite",
         data |-> [id |-> "f1", userId |-> "u1", productId |-> "p1", useCount |-> 1,
                   lastUsed |-> 0]]}
  \cup {[method |-> "POST", type |-> "findOrCreateProduct",
         data |-> [product |-> pr, userId |-> "u1"]] :
           pr \in {ProductOf("p2", " Milk ", ""), ProductOf("p3", "Tea", "b1"),
                   ProductOf("", "Cocoa", "b1")}}
  \cup {[method |-> "DELETE", type |-> type, data |-> [id |-> "r1"]] :
           type \in {"foodLog", "savedFood", "weightEntry"}}
  \cup {[method |-> "DELETE", type |-> "product", data |-> [id |-> "p1"]],
        [method |-> "DELETE", type |-> "userFavorite", data |-> [id |-> "f1"]]}

\* request M arrives and is handled
ServerReceive(M) ==
  /\ \A i \in 1..Len(srv.userFavorites) : srv.userFavorites[i].useCount < MaxUseCount
  /\ Len(srv.products) + Len(srv.userFavorites) + 2 <= Len(Uuids)
  /\ srv' = Deliver(srv, M, now)
  /\ UNCHANGED <<vars_core, readVars, listenerVars, lastPatch, wlog>>

NextServer ==
  \/ \E M \in Mutations : ServerReceive(M)
  \/ Tick /\ UNCHANGED extVars

SpecServer == Init /\ [][NextServer]_vars

\* C19: a request delivered a second time leaves the store as the first delivery left
\* it, for every request the client enqueues.
C19_RedeliveryIdempotent ==
  \A M \in Mutations :
    Deliver(Deliver(srv, M, now), M, now) = Deliver(srv, M, now)
\* ---- writes of one record, delivered to the server ----

\* the request of mutation m: the POST saves the food log, the DELETE deletes it
Request(m) ==
  IF WriteMethod(m) = "POST"
  THEN [method |-> "POST", type |-> "foodLog", data |-> [id |-> LogId, v |-> m]]
  ELSE [method |-> "DELETE", type |-> "foodLog", data |-> [id |-> LogId]]

\* history: a 2xx answer to a request of mutation m is the server having handled it
Handled(m, r) ==
  IF r = "2xx" THEN [wlog EXCEPT ![m].delivered = TRUE, ![m].times = @ + 1] ELSE wlog

\* answer r to the replay request of mutation m
Served(m, r) ==
  /\ srv' = IF r = "2xx" THEN Deliver(srv, Request(m), now) ELSE srv
  /\ wlog' = Handled(m, r)
  /\ UNCHANGED <<readVars, listenerVars, lastPatch>>

\* answer r to the immediate push of mutation m
PushServed(m, r) ==
  /\ srv' = IF r = "2xx" THEN Deliver(srv, Request(m), now) ELSE srv
  /\ wlog' = [Handled(m, r) EXCEPT ![m].push = r]
  /\ UNCHANGED <<readVars, listenerVars, lastPatch>>

\* the failures that go away: a 5xx answer, a network error
Transient == {"2xx", "5xx", "neterr"}

NextLww ==
  \/ Tick /\ UNCHANGED extVars
  \/ GoOnline /\ UNCHANGED extVars
  \/ GoOffline /\ UNCHANGED extVars
  \/ CountDone /\ UNCHANGED extVars
  \/ TimerTick /\ UNCHANGED extVars
  \/ \E m \in Ids : saveFoodLog(m) /\ SideFrame /\ wlog' = Logged(m, "offlinePost")
  \/ \E m \in Ids : deleteFoodLog(m) /\ SideFrame /\ wlog' = Logged(m, "offlineDelete")
  \/ \E m \in Ids : Enqueue(m) /\ UNCHANGED extVars
  \/ \E m \in Ids, r \in Transient : PushResponse(m, r) /\ PushServed(m, r)
  \/ \E c \in Calls : LoadItems(c) /\ UNCHANGED extVars
  \/ \E c \in Calls, r \in Transient : Response(c, r, 0) /\ Served(Current(c).id, r)
  \/ \E c \in Calls : Book(c) /\ UNCHANGED extVars
  \/ \E c \in Calls : Meta(c) /\ UNCHANGED extVars

SpecLww == Init /\ [][NextLww]_vars

\* the mutations issued so far
Issued == {m \in Ids : wlog[m].kind /= "none"}

\* every call has returned, no pass is running, the queue is empty
Drained ==
  /\ queue = EmptyQueue
  /\ ActivePasses = {}
  /\ \A m \in Ids : wpc[m] \in {"new", "done"}

\* the issued mutation with the latest timestamp
Latest == CHOOSE m \in Issued : \A k \in Issued : wlog[k].ts <= wlog[m].ts

\* C18: once the queue is drained, every issued mutation having reached the server, the
\* server holds for the record what the mutation with the latest timestamp produces.
C18_LastWriteWins ==
  ( /\ Drained
    /\ Issued /= {}
    /\ \A m \in Issued : wlog[m].delivered
    /\ \A m, k \in Issued : wlog[m].ts = wlog[k].ts => m = k )
  => srv.foodLogs = Deliver(EmptyStore, Request(Latest), now).foodLogs
\* C20: a pass that set isSyncing has cleared it on whatever path it ended: with no
\* invocation of processSyncQueue past the guard, the guard is clear.
C20_GuardCleared == ActivePasses = {} => ~isSyncing
\* the items of pass c's snapshot that are in the queue
StillQueued(c, q) == {i \in 1..Len(pass[c].items) : pass[c].items[i].id \in DOMAIN q}

\* C21: the status published at the end of a pass over a non-empty queue is error exactly
\* when an item of the pass failed its replay and was kept, idle otherwise, and the count
\* published with it is the number of the pass's items that are still queued.
C21_EndOfPassStatus ==
  [][\A c \in Calls :
       (pass[c].pc = "meta" /\ pass'[c].pc = "free") =>
          /\ currentStatus' = IF StillQueued(c, queue') /= {} THEN "error" ELSE "idle"
          /\ currentPending' = Cardinality(StillQueued(c, queue'))]_vars

\* a pass has ended with error and count 1: one of its items was kept after a failed
\* replay, another one is gone
C21_Witness ==
  /\ ActivePasses = {}
  /\ ~isSyncing
  /\ currentStatus = "error"
  /\ currentPending = 1
  /\ \E m, k \in Ids : gone[m] /\ k \in DOMAIN queue /\ queue[k].retries > 0
\* the step starts no pass, issues no request and leaves the queue and the meta value
NoDrainEffect ==
  /\ isSyncing' = isSyncing
  /\ queue' = queue
  /\ lastSyncedAt' = lastSyncedAt
  /\ attempts' = attempts
  /\ \A c \in Calls : pass'[c].pc = pass[c].pc /\ pass'[c].sent = pass[c].sent

\* C22: a processSyncQueue call made without connectivity issues no request, does not set
\* the guard and changes neither the queue nor lastSyncedAt; past the guard it awaits the
\* pending count, and when the count arrives it publishes offline with the queue length.
C22_OfflineCallFrame ==
  [][/\ (~online /\ DirectCall) =>
          /\ NoDrainEffect
          /\ UNCHANGED statusVars
          /\ ~isSyncing => counting' = counting + 1
     /\ CountDone =>
          /\ NoDrainEffect
          /\ currentStatus' = "offline"
          /\ currentPending' = getPendingSyncCount(queue)]_vars

\* offline since before the only write: the queue holds it, and the offline call has
\* published (offline, 1)
C22_Witness ==
  /\ ~online
  /\ offlineOnly
  /\ counting = 0
  /\ ~isSyncing
  /\ lastSyncedAt = None
  /\ getPendingSyncCount(queue) = 1
  /\ currentStatus = "offline"
  /\ currentPending = 1
\* C23: lastSyncedAt is written at the end of every pass that found a non-empty queue,
\* with the clock value read when its loop ended, whatever the outcomes of its items;
\* no other step changes it (a call returning at the guard, offline or on an empty queue).
C23_LastSyncedAt ==
  [][/\ \A c \in Calls :
          /\ (pass[c].pc /= "meta" /\ pass'[c].pc = "meta") => pass'[c].stamp = now
          /\ (pass[c].pc \in {"resp", "book"}) => pass'[c].pc /= "free"
          /\ (pass[c].pc = "meta" /\ pass'[c].pc = "free") => lastSyncedAt' = pass[c].stamp
     /\ lastSyncedAt' /= lastSyncedAt =>
          \E c \in Calls : /\ pass[c].pc = "meta"
                            /\ pass'[c].pc = "free"
                            /\ Len(pass[c].items) > 0]_vars

\* a pass that kept one item and removed another has ended, and lastSyncedAt holds the
\* clock value 1
C23_Witness ==
  /\ ActivePasses = {}
  /\ now = 1
  /\ lastSyncedAt = 1
  /\ currentStatus = "error"
  /\ \E m, k \in Ids : gone[m] /\ k \in DOMAIN queue /\ queue[k].retries > 0
\* the ids of the first n items of pass c's snapshot, in order
SnapshotIds(c, n) == [i \in 1..n |-> pass[c].items[i].id]

\* C24: within one pass the replay requests issued so far are those of the snapshot's
\* items up to the current one, one each and in order, and at the end of the loop every
\* item of the snapshot has had its one request, whatever the outcomes before it; the
\* snapshot is the whole queue at the time it is read, so an item enqueued later gets
\* no request in this pass and is in the snapshot of the next.
C24_OneAttemptEach ==
  /\ [](\A c \in Calls :
          /\ pass[c].pc \in {"resp", "book"} => pass[c].sent = SnapshotIds(c, pass[c].idx)
          /\ pass[c].pc = "meta" => pass[c].sent = SnapshotIds(c, Len(pass[c].items)))
  /\ [][\A c \in Calls :
          (pass[c].pc = "load" /\ pass'[c].pc = "resp") =>
             {pass'[c].items[i].id : i \in 1..Len(pass'[c].items)} = DOMAIN queue]_vars

\* the loop of a pass over two items has ended: the first item failed and was kept, and
\* the second got its request all the same
C24_Witness ==
  \E c \in Calls :
    /\ pass[c].pc = "meta"
    /\ Len(pass[c].items) = 2
    /\ pass[c].items[1].retries > 0
    /\ Len(pass[c].sent) = 2
\* C25: a findOrCreateProduct call that has returned the server's result has left nothing
\* in the queue and its request is never replayed; one that has returned a fabricated
\* result (offline, network error, non-2xx answer) has added its one queue item.
C25_FindOrCreateQueuedIffNotServed ==
  \A m \in Ids :
    (wlog[m].kind = "findOrCreateProduct" /\ wpc[m] = "done") =>
       /\ wlog[m].result \in {"server", "fabricated"}
       /\ wlog[m].result = "server" =>
            (NewSyncId(m) \notin DOMAIN queue /\ ~gone[m] /\ attempts[m] = 0)
       /\ wlog[m].result = "fabricated" => (NewSyncId(m) \in DOMAIN queue \/ gone[m])

\* online, the request of findOrCreateProduct failed: the call has returned a fabricated
\* result and its item is queued
C25_Witness ==
  \E m \in Ids :
    /\ online
    /\ wlog[m].kind = "findOrCreateProduct"
    /\ wpc[m] = "done"
    /\ wlog[m].result = "fabricated"
    /\ NewSyncId(m) \in DOMAIN queue
\* ---- reads with and without a cached entry ----

\* the cache at the start: of each key, an earlier session has cached a payload or not
GetCaches ==
  {[k \in CacheKeys |-> IF k \in S THEN Absent ELSE InitCache[k]] : S \in SUBSET CacheKeys}

InitGet ==
  /\ online \in BOOLEAN
  /\ storeUp = TRUE
  /\ outages = 0
  /\ now = 0
  /\ queue = EmptyQueue
  /\ lastSyncedAt = None
  /\ cache \in GetCaches
  /\ isSyncing = FALSE
  /\ currentStatus = IF online THEN "idle" ELSE "offline"
  /\ currentPending = 0
  /\ pass = [c \in Calls |-> Free]
  /\ counting = 0
  /\ wpc = [m \in Ids |-> "new"]
  /\ wts = [m \in Ids |-> 0]
  /\ attempts = [m \in Ids |-> 0]
  /\ gone = [m \in Ids |-> FALSE]
  /\ rejected = "no"
  /\ reconnectAt = None
  /\ offlineOnly = TRUE
  /\ ExtInit

NextGet ==
  \/ \E k \in CacheKeys : ReadCall(k)
  \/ \E v \in NetPayloads(rd.key) : ReadOk(v)
  \/ ReadFail
  \/ ReadFallback

SpecGet == InitGet /\ [][NextGet]_vars

\* C26: a read whose fetch is answered 2xx returns the network payload, whatever the
\* cache holds; a read whose fetch fails returns the cached payload of its key when there
\* is an entry; with neither offlineGet throws, and safeGet returns the default value.
C26_ReadOutcome ==
  [][/\ (rd.pc = "net" /\ rd'.pc = "idle") =>
          /\ rd'.via = "net"
          /\ rd'.out = fresh'[rd.key]
          /\ rd'.out \in NetPayloads(rd.key)
     /\ (rd.pc = "fallback" /\ rd'.pc = "idle") =>
          /\ rd'.via = "cache"
          /\ cache[rd.key] /= Absent =>
               (rd'.out = cache[rd.key] /\ safeGet(rd'.out, DefaultValue(rd.key)) = cache[rd.key])
          /\ cache[rd.key] = Absent =>
               (rd'.out = Threw /\ safeGet(rd'.out, DefaultValue(rd.key)) = DefaultValue(rd.key))]_vars

\* a read has failed over the network with nothing cached under its key, while another
\* key holds a payload cached from the network
C26_Witness ==
  /\ rd.pc = "idle"
  /\ rd.via = "cache"
  /\ rd.out = Threw
  /\ cache[rd.key] = Absent
  /\ \E k \in CacheKeys : fresh[k] /= NoOut /\ cache[k] = fresh[k]
\* ---- draining a queue left by earlier sessions: online, no new writes ----

NextDrain ==
  \/ TimerTick /\ UNCHANGED extVars
  \/ DirectCall /\ UNCHANGED extVars
  \/ \E c \in Calls : LoadItems(c) /\ UNCHANGED extVars
  \/ \E c \in Calls, r \in Responses : Response(c, r, 0) /\ UNCHANGED extVars
  \/ \E c \in Calls : Book(c) /\ UNCHANGED extVars
  \/ \E c \in Calls : Meta(c) /\ UNCHANGED extVars

\* the interval timer keeps firing, every request is answered, every store request completes
FairDrain ==
  /\ WF_vars(TimerTick /\ UNCHANGED extVars)
  /\ \A c \in Calls :
       /\ WF_vars(LoadItems(c) /\ UNCHANGED extVars)
       /\ WF_vars((\E r \in Responses : Response(c, r, 0)) /\ UNCHANGED extVars)
       /\ WF_vars(Book(c) /\ UNCHANGED extVars)
       /\ WF_vars(Meta(c) /\ UNCHANGED extVars)

SpecDrain == InitOrder /\ [][NextDrain]_vars /\ FairDrain

\* C27: online, every request answered, no new writes: whatever the server answers, no
\* queued item ever has MAX_RETRIES failed attempts on it, and the queue becomes empty
\* and stays so.
C27_QueueDrains ==
  /\ [](\A m \in DOMAIN queue : queue[m].retries < MAX_RETRIES)
  /\ <>[](queue = EmptyQueue)

\* the two items left by an earlier session are gone, no pass is running
C27_Witness ==
  /\ queue = EmptyQueue
  /\ ActivePasses = {}
  /\ ~isSyncing
  /\ \A m \in Ids : gone[m]
ShowsRecord(c, k, m) ==
  /\ c[k].kind = "list"
  /\ \E i \in 1..Len(c[k].data) : c[k].data[i].id = m

\* mutation m is in the queue and no answer to a request of it has come back
PendingUnanswered(q, w, m) ==
  /\ NewSyncId(m) \in DOMAIN q
  /\ w[m] = "push"
  /\ attempts[m] = 0

\* C29: while the mutation that wrote record R is pending in the queue (here: queued, its
\* immediate push not answered yet, never replayed), a cached list that shows R after the
\* optimistic patch keeps showing R in every step, steps of network reads included.
C29_PendingStaysCached ==
  [][\A m \in Ids :
       (/\ WriteMethod(m) = "POST"
        /\ PendingUnanswered(queue, wpc, m)
        /\ PendingUnanswered(queue', wpc', m)
        /\ ShowsRecord(cache, WeightKey, m)) => ShowsRecord(cache', WeightKey, m)]_vars
\* C30: an optimistic patch for a record of type T changes no cached entry but the list
\* of T's own collection query: the joined favorites-with-products list, the entries
\* under keys that do not match T's pattern and the entries that are no list stay as
\* they are.
C30_PatchFrame ==
  [][\A k \in AllKeys :
       cache'[k] /= cache[k] =>
          /\ k = CollectionKey(lastPatch'.type)
          /\ cache[k] /= Absent
          /\ cache[k].kind = "list"]_vars
====
